---- MODULE Spec2Model ----
(***************************************************************************)
(* Polling-place simulation (src/simulate.py): Voter, Precinct,            *)
(* VotingBooths, find_avg_wait_time.                                       *)
(*                                                                         *)
(* Times are simulation minutes.  The floats of the program are modelled   *)
(* by naturals on a grid of TimeStep minutes; every property below only    *)
(* uses the order of times and sums the program itself computes.           *)
(*                                                                         *)
(* The specifications share the operators and actions of Precinct.simulate:*)
(*   Spec        one precinct, simulate called again and again, the        *)
(*               (gap, voting_duration) pair of each next_voter call an    *)
(*               arbitrary input (SpecFair: the same, the program always   *)
(*               taking its next step);                                    *)
(*   SpecSeeded  find_avg_wait_time driving simulate, the pairs produced   *)
(*               by a deterministic generator whose state is the module-   *)
(*               level state of `random`.                                  *)
(***************************************************************************)
EXTENDS Integers, Sequences, FiniteSets, Bags, TLC

VARIABLES precinct, args, pc, time, voters, booths, i, voter, draws,
          rng, agg, ref, search, api, other,
          sir, grid, homes_for_sale, sch

vars == <<precinct, args, pc, time, voters, booths, i, voter, draws,
          rng, agg, ref, search, api, other,
          sir, grid, homes_for_sale, sch>>

\* simulate.py, all but the generator's state
electionVars == <<precinct, args, pc, time, voters, booths, i, voter, draws,
                  agg, ref, search, api, other>>

\* SIR/sir.py
epidemicVars == <<sir>>

\* schelling.py
schellingVars == <<grid, homes_for_sale, sch>>

trialVars == <<args, pc, time, voters, booths, i, voter, draws>>

(***************************************************************************)
(* Bounds of the model.                                                    *)
(***************************************************************************)
TimeStep == 20
MaxGapSteps == 2
MaxDurSteps == 2
MaxHoursOpen == 1
MaxVoters == 3
MaxBooths == 2
MaxTrials == 2
MaxSeed == 1

Gaps == {TimeStep * k : k \in 0..MaxGapSteps}
Durs == {TimeStep * k : k \in 0..MaxDurSteps}

\* percent_straight_ticket in tenths (find_percent_split_ticket sweeps i / 10)
Percents == {0, 5, 10}

(***************************************************************************)
(* Program constants and values.                                           *)
(***************************************************************************)
MinutesPerHour == 60

\* Python's None for a time that is not set; every time of the program is >= 0
None == -1

Max(S) == CHOOSE x \in S : \A y \in S : x >= y

Min(S) == CHOOSE x \in S : \A y \in S : x <= y

(***************************************************************************)
(* class Voter                                                             *)
(***************************************************************************)
\* fault: a voter is created with its start time already set
Voter_started(arrival_time, voting_duration) ==
    [arrival_time |-> arrival_time, voting_duration |-> voting_duration,
     start_time |-> arrival_time, departure_time |-> None]

Voter(arrival_time, voting_duration) ==
    [arrival_time |-> arrival_time, voting_duration |-> voting_duration,
     start_time |-> None, departure_time |-> None]

get_wait(v) ==
    IF v.start_time = None THEN None ELSE v.start_time - v.arrival_time

\* the loop variable `voter` before the first iteration binds it
NoVoter == Voter(None, None)

(***************************************************************************)
(* class VotingBooths: a queue.PriorityQueue(num_booths) of departure      *)
(* times.  maxsize <= 0 makes the queue unbounded; put on a full queue and *)
(* get on an empty queue block.                                            *)
(***************************************************************************)
VotingBooths(num_booths) == [maxsize |-> num_booths, queue |-> EmptyBag]

qsize(b) == BagCardinality(b.queue)

\* fault: the pool reports full one entry early
full_one_early(b) == 0 < b.maxsize /\ b.maxsize <= qsize(b) + 1

full(b) == 0 < b.maxsize /\ b.maxsize <= qsize(b)

enter_blocks(b) == b.maxsize > 0 /\ qsize(b) >= b.maxsize

enter(b, v) == [b EXCEPT !.queue = @ (+) SetToBag({v.departure_time})]

depart_blocks(b) == qsize(b) = 0

\* fault: every entry equal to the earliest departure leaves
depart_all_copies(b) ==
    [b EXCEPT !.queue = [x \in DOMAIN b.queue \ {Min(BagToSet(b.queue))} |-> b.queue[x]]]

\* fault: the latest departure leaves instead of the earliest
depart_value_latest(b) == Max(BagToSet(b.queue))

depart_value(b) == Min(BagToSet(b.queue))

depart(b) == [b EXCEPT !.queue = @ (-) SetToBag({depart_value(b)})]

(***************************************************************************)
(* The module `random` and util.gen_voter_parameters.  The generator is a  *)
(* deterministic function of its state: a linear congruential generator    *)
(* of full period stands for it.  Each random() gives the state as a       *)
(* number in 0..RngMod-1 (standing for [0, 1)) and advances the state.     *)
(***************************************************************************)
RngMod == 16
RngMul == 5
RngInc == 3

RngSeed(seed) == seed % RngMod

RngNext(r) == (RngMul * r + RngInc) % RngMod

\* random.expovariate(rate), as a number of time steps
Expovariate(r, maxSteps) == TimeStep * (r % (maxSteps + 1))

\* gap first, then the straight-ticket coin, then the duration if needed
gen_voter_parameters(r, percent_straight_ticket, straight_duration) ==
    LET r1 == RngNext(r)
        r2 == RngNext(r1)
        straight == r1 * 10 < percent_straight_ticket * RngMod
    IN  [gap |-> Expovariate(r, MaxGapSteps),
         voting_duration |-> IF straight THEN straight_duration
                             ELSE Expovariate(r2, MaxDurSteps),
         rng |-> IF straight THEN r2 ELSE RngNext(r2)]

(***************************************************************************)
(* class Precinct                                                          *)
(***************************************************************************)
Precinct(hours_open, max_num_voters, num_booths) ==
    [hours_open |-> hours_open, max_num_voters |-> max_num_voters,
     num_booths |-> num_booths]

\* the precinct dictionaries of the model; the dictionary's num_voters is the
\* object's max_num_voters
Precincts ==
    {Precinct(h, m, n) : h \in 0..MaxHoursOpen, m \in 0..MaxVoters, n \in 0..MaxBooths}

\* precinct["straight_ticket_duration"]
straight_ticket_duration == TimeStep

closing_time == precinct.hours_open * MinutesPerHour

\* fault: the gap is taken as the arrival time
next_voter_from_open(t, gap, voting_duration) == Voter(gap, voting_duration)

\* next_voter: the voter made from one generated (gap, voting_duration) pair
next_voter(t, gap, voting_duration) == Voter(t + gap, voting_duration)

\* fault: the generator is not reseeded
seeded_state_kept(r, seed) == r

\* simulate, line 127: random.seed(seed) replaces the generator's state r
seeded_state(r, seed) == RngSeed(seed)

\* fault: the loop runs once more
loop_continues_once_more == i <= precinct.max_num_voters

\* simulate, line 133: the for loop runs another iteration
loop_continues == i < precinct.max_num_voters

\* fault: the precinct never closes
closed_never(t) == FALSE

\* fault: an arrival at closing time closes the precinct
closed_at_boundary(t) == t >= closing_time

\* simulate, line 138: the voter arrived after the precinct closed
closed(t) == t > closing_time

\* fault: a voter starts at its arrival whatever the pool holds
start_time_of_arrival(v, b) == v.arrival_time

\* fault: a voter who finds the pool full always starts at the departure
start_time_of_no_compare(v, b) ==
    IF ~full(b) THEN v.arrival_time ELSE depart_value(b)

\* simulate_single_vote, lines 98-107: the start time and the pool after
\* the full() test and the depart() it may lead to
start_time_of(v, b) ==
    IF ~full(b) THEN v.arrival_time
    ELSE IF depart_value(b) < v.arrival_time THEN v.arrival_time
         ELSE depart_value(b)

\* simulate_single_vote, line 109
departure_time_of(v) == v.start_time + v.voting_duration

\* fault: one Voter object is reused, so every entry of the list is the
\* voter admitted last
append_voter_shared(vs, v) == [k \in 1..(Len(vs) + 1) |-> v]

\* simulate, line 142: voters.append(voter); the list holds one object per
\* voter, each made by its own call of next_voter
append_voter(vs, v) == Append(vs, v)

(***************************************************************************)
(* Precinct.simulate, one action per step of the loop.                     *)
(*   pc: "idle" not called yet, "loop" at the head of the for loop,        *)
(*       "vote" inside simulate_single_vote before full(), "enter" before  *)
(*       line 109, "done" returned, "blocked" waiting for ever inside the  *)
(*       queue.                                                            *)
(***************************************************************************)
SimulateCall(percent_straight_ticket, straight_duration, seed) ==
    /\ pc \in {"idle", "done"}
    /\ args' = [percent_straight_ticket |-> percent_straight_ticket,
                straight_ticket_duration |-> straight_duration,
                seed |-> seed]
    /\ rng' = seeded_state(rng, seed)
    /\ time' = 0
    /\ voters' = <<>>
    /\ booths' = VotingBooths(precinct.num_booths)
    /\ i' = 0
    /\ voter' = NoVoter
    /\ draws' = <<>>
    /\ pc' = "loop"

NextVoter(gap, voting_duration) ==
    /\ pc = "loop"
    /\ loop_continues
    /\ voter' = next_voter(time, gap, voting_duration)
    /\ time' = voter'.arrival_time
    /\ draws' = Append(draws, <<gap, voting_duration>>)
    /\ pc' = IF closed(time') THEN "done" ELSE "vote"
    /\ UNCHANGED <<args, voters, booths, i>>

LoopExhausted ==
    /\ pc = "loop"
    /\ ~loop_continues
    /\ pc' = "done"
    /\ UNCHANGED <<args, time, voters, booths, i, voter, draws>>

Admit ==
    /\ pc = "vote"
    /\ IF full(booths) /\ depart_blocks(booths)
       THEN /\ pc' = "blocked"
            /\ UNCHANGED <<voter, booths>>
       ELSE /\ voter' = [voter EXCEPT !.start_time = start_time_of(voter, booths)]
            /\ booths' = IF full(booths) THEN depart(booths) ELSE booths
            /\ pc' = "enter"
    /\ UNCHANGED <<args, time, voters, i, draws>>

Enter ==
    /\ pc = "enter"
    /\ IF enter_blocks(booths)
       THEN /\ pc' = "blocked"
            /\ UNCHANGED <<voter, booths, voters, i>>
       ELSE /\ voter' = [voter EXCEPT !.departure_time = departure_time_of(voter)]
            /\ booths' = enter(booths, voter')
            /\ voters' = append_voter(voters, voter')
            /\ i' = i + 1
            /\ pc' = "loop"
    /\ UNCHANGED <<args, time, draws>>

(***************************************************************************)
(* find_avg_wait_time.  An average is the exact fraction sum / len in      *)
(* lowest terms, so that equal averages are equal values.                  *)
(***************************************************************************)
RECURSIVE GCD(_, _)
GCD(a, b) == IF b = 0 THEN a ELSE GCD(b, a % b)

Fraction(num, den) ==
    LET g == GCD(num, den) IN [num |-> num \div g, den |-> den \div g]

Less(x, y) == x.num * y.den < y.num * x.den

RECURSIVE SumWaits(_)
SumWaits(vs) == IF vs = <<>> THEN 0 ELSE get_wait(Head(vs)) + SumWaits(Tail(vs))

\* line 216: sum([v.get_wait() for v in voters]) / len(voters)
avg_wait_of(vs) == Fraction(SumWaits(vs), Len(vs))

\* Python's None where an average is expected
NoneWait == [num |-> None, den |-> 1]

\* fault: an empty trial counts as an average of 0
avg_wait_result_guarded(vs) ==
    IF vs = <<>> THEN [error |-> "none", value |-> Fraction(0, 1)]
    ELSE [error |-> "none", value |-> avg_wait_of(vs)]

\* line 216 with its exception: the division by len(voters) = 0
avg_wait_result(vs) ==
    IF vs = <<>> THEN [error |-> "ZeroDivisionError", value |-> Fraction(0, 1)]
    ELSE [error |-> "none", value |-> avg_wait_of(vs)]

\* list.sort(): ascending and stable
RECURSIVE Insert(_, _)
Insert(x, s) ==
    IF s = <<>> THEN <<x>>
    ELSE IF Less(x, Head(s)) THEN <<x>> \o s
         ELSE <<Head(s)>> \o Insert(x, Tail(s))

RECURSIVE Sorted(_)
Sorted(s) == IF s = <<>> THEN <<>> ELSE Insert(s[Len(s)], Sorted(SubSeq(s, 1, Len(s) - 1)))

\* fault: the lower middle element
median_index_lower(ntrials) == (ntrials - 1) \div 2

\* line 221: the index ntrials // 2
median_index(ntrials) == ntrials \div 2

\* lines 219-221 on a list of averages
median_of(lst, ntrials) == Sorted(lst)[median_index(ntrials) + 1]

RECURSIVE WaitsOf(_)
WaitsOf(vs) == IF vs = <<>> THEN <<>> ELSE <<get_wait(Head(vs))>> \o WaitsOf(Tail(vs))

\* fault: every trial runs with the initial seed
trial_seed_fixed(initial_seed, k) == initial_seed

\* line 215: the seed of the trial of index k
trial_seed(initial_seed, k) == initial_seed + k

\* agg.pc: "idle" not called, "loop" at the head of the for loop, "trial"
\* inside p.simulate, "returned", "error" (an exception left the function);
\* calls and trial_waits record the calls of p.simulate and the waits of the
\* voters each returned
NoAgg ==
    [pc |-> "idle", percent_straight_ticket |-> 0, ntrials |-> 0,
     initial_seed |-> 0, i |-> 0, avg_wait_lst |-> <<>>, calls |-> <<>>,
     trial_waits |-> <<>>, result |-> Fraction(0, 1), error |-> "none"]

NoRef == [seed |-> None, percent_straight_ticket |-> None, voters |-> <<>>]

\* search.pc: "idle" not called, "sweep" at the head of the for loop, "wait"
\* inside find_avg_wait_time, "returned", "error"; evaluated records each
\* percentage evaluated with the arguments passed and the wait returned
NoSearch ==
    [pc |-> "idle", target_wait_time |-> 0, ntrials |-> 0, seed |-> 0, i |-> 0,
     percent_split_ticket |-> 0, found |-> FALSE, evaluated |-> <<>>,
     result |-> [percent_split_ticket |-> 0, avg_wait_time |-> NoneWait]]

\* the last call of a VotingBooths method by a client: the method, its
\* argument, the pool before it, what it returned ("blocked": it never returns)
NoApi ==
    [op |-> "none", outcome |-> "none", arg |-> None, value |-> None,
     answer |-> FALSE, before |-> EmptyBag]

\* the locals of a second call of simulate, not started
NoOther ==
    [args |-> [percent_straight_ticket |-> 0, straight_ticket_duration |-> 0, seed |-> 0],
     pc |-> "idle", time |-> 0, voters |-> <<>>,
     booths |-> VotingBooths(precinct.num_booths), i |-> 0, voter |-> NoVoter,
     draws |-> <<>>]

\* the function is left (return or exception): the last trial's objects
\* (voters, booths, the loop variables) are released
ReleaseTrial ==
    /\ args' = [percent_straight_ticket |-> 0, straight_ticket_duration |-> 0, seed |-> 0]
    /\ pc' = "idle"
    /\ time' = 0
    /\ voters' = <<>>
    /\ booths' = VotingBooths(precinct.num_booths)
    /\ i' = 0
    /\ voter' = NoVoter
    /\ draws' = <<>>

FindAvgWaitTimeCall(percent_straight_ticket, ntrials, initial_seed) ==
    /\ agg.pc \in {"idle", "returned", "error"}
    /\ agg' = [NoAgg EXCEPT !.pc = "loop",
                            !.percent_straight_ticket = percent_straight_ticket,
                            !.ntrials = ntrials,
                            !.initial_seed = initial_seed]
    /\ UNCHANGED <<api, other, precinct, epidemicVars, schellingVars, trialVars, rng, ref>>

\* lines 212-215: the loop calls p.simulate
TrialCall ==
    /\ agg.pc = "loop"
    /\ agg.i < agg.ntrials
    /\ SimulateCall(agg.percent_straight_ticket, straight_ticket_duration,
                    trial_seed(agg.initial_seed, agg.i))
    /\ agg' = [agg EXCEPT !.pc = "trial",
                          !.calls = Append(@, [seed |-> args'.seed,
                              percent_straight_ticket |-> args'.percent_straight_ticket])]
    /\ UNCHANGED <<search, api, other, precinct, epidemicVars, schellingVars, ref>>

\* lines 216-217, after p.simulate returned; ref keeps the result of one
\* earlier call of simulate, any one, to compare later calls with
TrialReturn ==
    /\ agg.pc = "trial"
    /\ pc = "done"
    /\ agg' = IF avg_wait_result(voters).error # "none"
              THEN [agg EXCEPT !.pc = "error", !.error = avg_wait_result(voters).error,
                               !.trial_waits = Append(@, WaitsOf(voters))]
              ELSE [agg EXCEPT !.pc = "loop", !.i = @ + 1,
                               !.avg_wait_lst = Append(@, avg_wait_result(voters).value),
                               !.trial_waits = Append(@, WaitsOf(voters))]
    /\ \/ ref' = ref
       \/ /\ ref = NoRef
          /\ ref' = [seed |-> args.seed,
                     percent_straight_ticket |-> args.percent_straight_ticket,
                     voters |-> voters]
    /\ IF avg_wait_result(voters).error # "none" THEN ReleaseTrial
       ELSE UNCHANGED trialVars
    /\ UNCHANGED <<search, api, other, precinct, epidemicVars, schellingVars, rng>>

\* lines 219-221
FindAvgWaitTimeReturn ==
    /\ agg.pc = "loop"
    /\ agg.i >= agg.ntrials
    /\ agg' = IF median_index(agg.ntrials) >= Len(agg.avg_wait_lst)
              THEN [agg EXCEPT !.pc = "error", !.error = "IndexError",
                               !.avg_wait_lst = Sorted(@)]
              ELSE [agg EXCEPT !.pc = "returned", !.avg_wait_lst = Sorted(@),
                               !.result = median_of(agg.avg_wait_lst, agg.ntrials)]
    /\ ReleaseTrial
    /\ UNCHANGED <<search, api, other, precinct, epidemicVars, schellingVars, rng, ref>>

\* any other use of `random` by the process between two calls
OtherDraw ==
    /\ agg.pc \in {"idle", "returned", "error"}
    /\ rng' = RngNext(rng)
    /\ UNCHANGED <<search, api, other, precinct, epidemicVars, schellingVars, trialVars, agg, ref>>

(***************************************************************************)
(* find_percent_split_ticket.  Percentages are in tenths: i / 10 is i, and *)
(* 1 is Tenths.                                                            *)
(***************************************************************************)
SweepPoints == 11
Tenths == 10

\* fault: the sweep stops one point early
sweep_continues_short == search.i < SweepPoints - 1

\* line 248: for i in range(11)
sweep_continues == search.i < SweepPoints

\* fault: a wait equal to the target stops the sweep
exceeds_or_equal(avg_wait_time, target_wait_time) ==
    avg_wait_time.num >= target_wait_time * avg_wait_time.den

\* line 253: avg_wait_time > target_wait_time
exceeds(avg_wait_time, target_wait_time) ==
    avg_wait_time.num > target_wait_time * avg_wait_time.den

FindPercentSplitTicketCall(target_wait_time, ntrials, seed) ==
    /\ search.pc = "idle"
    /\ agg.pc = "idle"
    /\ search' = [NoSearch EXCEPT !.pc = "sweep", !.target_wait_time = target_wait_time,
                                  !.ntrials = ntrials, !.seed = seed]
    /\ UNCHANGED <<api, other, precinct, epidemicVars, schellingVars, trialVars, rng, agg, ref>>

\* lines 248-252: the next percentage and the call of find_avg_wait_time
SweepStep ==
    /\ search.pc = "sweep"
    /\ sweep_continues
    /\ FindAvgWaitTimeCall(Tenths - search.i, search.ntrials, search.seed)
    /\ search' = [search EXCEPT !.pc = "wait", !.percent_split_ticket = search.i]

\* lines 253-258, after find_avg_wait_time returned
SweepCompare ==
    /\ search.pc = "wait"
    /\ agg.pc = "returned"
    /\ LET ev == Append(search.evaluated,
                        [percent_split_ticket |-> search.percent_split_ticket,
                         percent_straight_ticket |-> agg.percent_straight_ticket,
                         ntrials |-> agg.ntrials, seed |-> agg.initial_seed,
                         avg_wait_time |-> agg.result])
       IN  search' = IF exceeds(agg.result, search.target_wait_time)
                     THEN [search EXCEPT !.pc = "returned", !.found = TRUE,
                               !.evaluated = ev,
                               !.result = [percent_split_ticket |-> search.percent_split_ticket,
                                           avg_wait_time |-> agg.result]]
                     ELSE [search EXCEPT !.pc = "sweep", !.i = @ + 1, !.evaluated = ev]
    /\ UNCHANGED <<api, other, precinct, epidemicVars, schellingVars, trialVars, rng, agg, ref>>

\* an exception of find_avg_wait_time leaves find_percent_split_ticket
SweepError ==
    /\ search.pc = "wait"
    /\ agg.pc = "error"
    /\ search' = [search EXCEPT !.pc = "error"]
    /\ UNCHANGED <<api, other, precinct, epidemicVars, schellingVars, trialVars, rng, agg, ref>>

\* lines 257-260 after the loop ran out
SweepExhausted ==
    /\ search.pc = "sweep"
    /\ ~sweep_continues
    /\ search' = [search EXCEPT !.pc = "returned",
                      !.result = [percent_split_ticket |-> Tenths, avg_wait_time |-> NoneWait]]
    /\ UNCHANGED <<api, other, precinct, epidemicVars, schellingVars, trialVars, rng, agg, ref>>

(***************************************************************************)
(* SIR/sir.py.  A person is a string, modelled as the sequence of its      *)
(* characters: "S" is <<"S">>, "I12" is <<"I", "1", "2">>.  A city is a    *)
(* sequence of persons; positions of the code count from 0, indices of the *)
(* model from 1.                                                           *)
(***************************************************************************)
MaxCity == 3
MaxDaysContagious == 2
TEST_SEED == 20170217

DecimalDigits == <<"0", "1", "2", "3", "4", "5", "6", "7", "8", "9">>

Radix == Len(DecimalDigits)

\* the value of one decimal digit
DigitValue(c) == (CHOOSE d \in 1..Radix : DecimalDigits[d] = c) - 1

\* int(s) for a string s of decimal digits
RECURSIVE int(_)
int(s) ==
    IF Len(s) = 1 THEN DigitValue(s[1])
    ELSE Radix * int(SubSeq(s, 1, Len(s) - 1)) + DigitValue(s[Len(s)])

\* str(n) for an integer n >= 0
RECURSIVE str(_)
str(n) ==
    IF n < Radix THEN <<DecimalDigits[n + 1]>>
    ELSE str(n \div Radix) \o <<DecimalDigits[(n % Radix) + 1]>>

Susceptible == <<"S">>
Recovered == <<"R">>
Vaccinated == <<"V">>
Infected(k) == <<"I">> \o str(k)

\* the days an infected person of a starting city has been infected
InfectedDays == 0..(MaxDaysContagious - 1)

People == {Susceptible, Recovered, Vaccinated} \cup {Infected(k) : k \in InfectedDays}

RECURSIVE CitiesOfLength(_)
CitiesOfLength(n) ==
    IF n = 0 THEN {<<>>}
    ELSE {Append(c, person) : c \in CitiesOfLength(n - 1), person \in People}

Cities == UNION {CitiesOfLength(n) : n \in 0..MaxCity}

DaysContagious == 0..MaxDaysContagious

\* "I" in people
is_infected(people) == \E k \in 1..Len(people) : people[k] = "I"

\* fault: only a person infected today is counted
count_infected_today(city) == Cardinality({k \in 1..Len(city) : city[k] = Infected(0)})

count_infected(city) == Cardinality({k \in 1..Len(city) : is_infected(city[k])})

\* position is an index of the model (the code's position + 1)
has_an_infected_neighbor(city, position) ==
    LET right_neighbor == Min({position + 1, Len(city)})
        left_neighbor == Max({position - 1, 1})
    IN  is_infected(city[right_neighbor]) \/ is_infected(city[left_neighbor])

advance_person_at_position(city, position, days_contagious) ==
    IF city[position] = Recovered \/ city[position] = Vaccinated THEN city[position]
    ELSE IF city[position] = Susceptible
         THEN IF has_an_infected_neighbor(city, position)
              THEN Infected(0)
              ELSE city[position]
         ELSE LET days_infected == int(Tail(city[position]))
              IN  IF days_infected < days_contagious - 1
                  THEN <<"I">> \o str(days_infected + 1)
                  ELSE Recovered

\* fault: the city is updated in place, so a person is advanced from the
\* new states of the people before it
city_read_in_place(starting_city, new_city) ==
    new_city \o SubSeq(starting_city, Len(new_city) + 1, Len(starting_city))

\* simulate_one_day, lines 107-108: the city advance_person_at_position is
\* given while new_city is being built
city_read(starting_city, new_city) == starting_city

\* simulate_one_day, lines 104-111, from the people appended so far
RECURSIVE simulate_one_day_from(_, _, _)
simulate_one_day_from(starting_city, new_city, days_contagious) ==
    IF Len(new_city) = Len(starting_city) THEN new_city
    ELSE simulate_one_day_from(
             starting_city,
             Append(new_city,
                    advance_person_at_position(city_read(starting_city, new_city),
                                               Len(new_city) + 1, days_contagious)),
             days_contagious)

simulate_one_day(starting_city, days_contagious) ==
    simulate_one_day_from(starting_city, <<>>, days_contagious)

\* vaccinate_city from the generator state r: random() is drawn for the
\* people in state S only; vaccine_effectiveness is in tenths
RECURSIVE vaccinate_city(_, _, _)
vaccinate_city(starting_city, vaccine_effectiveness, r) ==
    IF starting_city = <<>> THEN [city |-> <<>>, rng |-> r]
    ELSE LET people == Head(starting_city)
             drawn == people = Susceptible
             effective == drawn /\ r * Tenths < vaccine_effectiveness * RngMod
             rest == vaccinate_city(Tail(starting_city), vaccine_effectiveness,
                                    IF drawn THEN RngNext(r) ELSE r)
         IN  [city |-> <<IF effective THEN Vaccinated ELSE people>> \o rest.city,
              rng |-> rest.rng]

\* run_simulation not called
NoSir ==
    [pc |-> "idle", starting_city |-> <<>>, days_contagious |-> 0,
     vaccine_effectiveness |-> 0, vaccinated |-> <<>>, count |-> 0,
     day_city |-> <<>>, first_city |-> <<>>, days |-> 0]

(***************************************************************************)
(* run_simulation, one action per step.                                    *)
(*   sir.pc: "idle" not called, "loop" at the test of the while loop,      *)
(*           "count" before line 137, "returned".                          *)
(*   sir.starting_city and sir.vaccine_effectiveness are the arguments of  *)
(*   a call about to be made.                                              *)
(*   sir.vaccinated is the variable of that name; sir.day_city (the list   *)
(*   given to the last call of simulate_one_day, as that call left it),    *)
(*   sir.first_city (the city after vaccination) and sir.days (the calls   *)
(*   of simulate_one_day made) are kept for the properties.                *)
(***************************************************************************)
RunSimulationCall(starting_city, days_contagious, random_seed, vaccine_effectiveness) ==
    /\ sir.pc = "idle"
    /\ LET v == vaccinate_city(starting_city, vaccine_effectiveness,
                               seeded_state(rng, random_seed))
       IN  /\ sir' = [NoSir EXCEPT !.pc = "loop",
                                   !.days_contagious = days_contagious,
                                   !.vaccinated = v.city, !.first_city = v.city]
           /\ rng' = v.rng
    /\ UNCHANGED <<electionVars, schellingVars>>

\* lines 135-136
SimulateOneDay ==
    /\ sir.pc = "loop"
    /\ count_infected(sir.vaccinated) > 0
    /\ sir' = [sir EXCEPT !.pc = "count", !.day_city = sir.vaccinated,
                          !.vaccinated = simulate_one_day(@, sir.days_contagious),
                          !.days = @ + 1]
    /\ UNCHANGED <<electionVars, schellingVars, rng>>

\* line 137
CountDay ==
    /\ sir.pc = "count"
    /\ sir' = [sir EXCEPT !.pc = "loop", !.count = @ + 1]
    /\ UNCHANGED <<electionVars, schellingVars, rng>>

RunSimulationReturn ==
    /\ sir.pc = "loop"
    /\ ~(count_infected(sir.vaccinated) > 0)
    /\ sir' = [sir EXCEPT !.pc = "returned"]
    /\ UNCHANGED <<electionVars, schellingVars, rng>>

(***************************************************************************)
(* schelling.py.  A grid is a sequence of rows of "M", "B" and "F"; a      *)
(* location is <<row, col>>, counted from 1 (the code counts from 0).      *)
(* sim_sat_range is <<lb, ub>> in tenths and a similarity score is         *)
(* compared as the exact ratio similar / (similar + opposite).             *)
(***************************************************************************)
MaxR == 1
MaxPatience == 2
MaxSteps == 2

Colors == {"M", "B"}
Cells == Colors \cup {"F"}

\* the index range of the small grids
Side == {1, 2}

SmallGrids == [Side -> [Side -> Cells]]

\* larger cities: a mixed one with three homes for sale and a segregated one
SampleGrids ==
    {<<<<"M", "B", "F">>,
       <<"B", "M", "F">>,
       <<"M", "M", "F">>>>,
     <<<<"M", "M", "B">>,
       <<"M", "F", "B">>,
       <<"F", "B", "B">>>>}

Grids == SmallGrids \cup SampleGrids

\* --sim_lb, --sim_ub: the defaults 0.40, 0.70 and two other ranges
SatRanges == {<<4, 7>>, <<5, 10>>, <<0, 5>>}

Locations(g) == (1..Len(g)) \X (1..Len(g))

CellAt(g, location) == g[location[1]][location[2]]

Abs(n) == IF n < 0 THEN -n ELSE n

\* is_satisfied, for R >= 0: the homeowner counts as similar to itself, so
\* the ratio is defined
is_satisfied(g, R, location, sim_sat_range) ==
    LET x == location[1]
        y == location[2]
        lb == sim_sat_range[1]
        ub == sim_sat_range[2]
        dim == Len(g)
        top_x == Max({1, x - R})
        top_y == Max({1, y - R})
        bot_x == Min({dim, x + R})
        bot_y == Min({dim, y + R})
        neighborhood == {c \in (top_x..bot_x) \X (top_y..bot_y) :
                            Abs(x - c[1]) + Abs(y - c[2]) <= R}
        similar_count == Cardinality({c \in neighborhood : CellAt(g, c) = CellAt(g, location)})
        opposite_count == Cardinality({c \in neighborhood :
                                          /\ CellAt(g, c) # CellAt(g, location)
                                          /\ CellAt(g, c) # "F"})
    IN  /\ lb * (similar_count + opposite_count) <= Tenths * similar_count
        /\ Tenths * similar_count <= ub * (similar_count + opposite_count)

swap_locations(g, origin, destination) ==
    LET original_value == CellAt(g, origin)
        desired_value == CellAt(g, destination)
        g1 == [g EXCEPT ![origin[1]][origin[2]] = desired_value]
    IN  [g1 EXCEPT ![destination[1]][destination[2]] = original_value]

\* fault: the chosen home is returned with the trial swap still in place
restore_chosen_skipped(g, location, new_house) == g

\* find_new_house, line 128: the swap undone before the chosen home is returned
restore_chosen(g, location, new_house) == swap_locations(g, location, new_house)

\* list.remove(x): the first entry equal to x leaves
RECURSIVE remove(_, _)
remove(lst, x) ==
    IF lst = <<>> THEN <<>>
    ELSE IF Head(lst) = x THEN Tail(lst)
         ELSE <<Head(lst)>> \o remove(Tail(lst), x)

\* fault: the new home stays in the list
homes_after_move_kept(lst, location, new_location) == <<location>> \o lst

\* simulate_wave, lines 166-167
homes_after_move(lst, location, new_location) ==
    <<location>> \o remove(lst, new_location)

\* fault: the loop runs while steps <= max_steps
step_continues_inclusive(steps, max_steps, one_step_relocation) ==
    steps <= max_steps /\ one_step_relocation # 0

\* do_simulation, line 222
step_continues(steps, max_steps, one_step_relocation) ==
    steps < max_steps /\ one_step_relocation # 0

\* the locations of a grid in the order simulate_wave visits them
RECURSIVE RowMajor(_, _, _)
RowMajor(dim, row, col) ==
    IF row > dim THEN <<>>
    ELSE IF col > dim THEN RowMajor(dim, row + 1, 1)
         ELSE <<<<row, col>>>> \o RowMajor(dim, row, col + 1)

RECURSIVE Filter(_, _)
Filter(lst, g) ==
    IF lst = <<>> THEN <<>>
    ELSE IF CellAt(g, Head(lst)) = "F" THEN <<Head(lst)>> \o Filter(Tail(lst), g)
         ELSE Filter(Tail(lst), g)

RECURSIVE Reverse(_)
Reverse(lst) == IF lst = <<>> THEN <<>> ELSE Append(Reverse(Tail(lst)), Head(lst))

\* the homes for sale of a grid, each once
for_sale(g) == Filter(RowMajor(Len(g), 1, 1), g)

\* the location simulate_wave visits after <<row, col>>
next_location(g, location) ==
    IF location[2] < Len(g) THEN <<location[1], location[2] + 1>>
    ELSE <<location[1] + 1, 1>>

\* do_simulation not called
NoSch ==
    [pc |-> "idle", R |-> 0, sim_sat_range |-> <<0, 0>>, patience |-> 0,
     max_steps |-> 0, total_relocations |-> 0, steps |-> 0,
     one_step_relocation |-> 0, color |-> "M", maroon_wave |-> 0,
     relocations |-> 0, location |-> <<1, 1>>, k |-> 1, left |-> 0,
     new_location |-> <<1, 1>>, result |-> 0,
     grid0 |-> <<>>, entry_grid |-> <<>>, entry_homes |-> <<>>,
     tried |-> 0, waves |-> <<>>, moved |-> <<>>]

(***************************************************************************)
(* do_simulation with simulate_step, simulate_wave and find_new_house      *)
(* inlined, one action per step.                                           *)
(*   sch.pc: "idle" not called, "test" at the while test of do_simulation, *)
(*     "wave" at a location of simulate_wave's loops, "find" at the head   *)
(*     of find_new_house's loop, "swapped" after line 124, "found" after   *)
(*     find_new_house returned (line 164), "returned".                     *)
(*   sch.k is the index of new_house in homes_for_sale, sch.left the       *)
(*   local patience of find_new_house.                                     *)
(*   Kept for the properties: grid0 (the grid at the call), entry_grid and *)
(*   entry_homes (grid and homes_for_sale when find_new_house was          *)
(*   called), tried (homes tried by that call), waves (the colours of the  *)
(*   waves run) and moved (for each step run, the relocations made).       *)
(***************************************************************************)
DoSimulationCall ==
    /\ sch.pc = "idle"
    /\ sch' = [sch EXCEPT !.pc = "test", !.total_relocations = 0, !.steps = 0,
                          !.one_step_relocation = 1, !.grid0 = grid]
    /\ UNCHANGED <<grid, homes_for_sale>>
    /\ UNCHANGED <<electionVars, epidemicVars, rng>>

\* line 222 true; simulate_step and its maroon wave begin
StepStart ==
    /\ sch.pc = "test"
    /\ step_continues(sch.steps, sch.max_steps, sch.one_step_relocation)
    /\ sch' = [sch EXCEPT !.pc = "wave", !.color = "M", !.relocations = 0,
                          !.location = <<1, 1>>, !.waves = Append(@, "M"),
                          !.moved = Append(@, 0)]
    /\ UNCHANGED <<grid, homes_for_sale>>
    /\ UNCHANGED <<electionVars, epidemicVars, rng>>

\* line 222 false
DoSimulationReturn ==
    /\ sch.pc = "test"
    /\ ~step_continues(sch.steps, sch.max_steps, sch.one_step_relocation)
    /\ sch' = [sch EXCEPT !.pc = "returned", !.result = sch.total_relocations]
    /\ UNCHANGED <<grid, homes_for_sale>>
    /\ UNCHANGED <<electionVars, epidemicVars, rng>>

\* lines 159-163
WaveVisit ==
    /\ sch.pc = "wave"
    /\ sch.location[1] <= Len(grid)
    /\ LET right_color == CellAt(grid, sch.location) = sch.color
       IN  IF right_color /\ ~is_satisfied(grid, sch.R, sch.location, sch.sim_sat_range)
           THEN sch' = [sch EXCEPT !.pc = "find", !.k = 1, !.left = sch.patience,
                                   !.entry_grid = grid,
                                   !.entry_homes = homes_for_sale, !.tried = 0]
           ELSE sch' = [sch EXCEPT !.location = next_location(grid, @)]
    /\ UNCHANGED <<grid, homes_for_sale>>
    /\ UNCHANGED <<electionVars, epidemicVars, rng>>

\* lines 123-124
TrialSwap ==
    /\ sch.pc = "find"
    /\ sch.k <= Len(homes_for_sale)
    /\ grid' = swap_locations(grid, sch.location, homes_for_sale[sch.k])
    /\ sch' = [sch EXCEPT !.pc = "swapped", !.tried = @ + 1]
    /\ UNCHANGED homes_for_sale
    /\ UNCHANGED <<electionVars, epidemicVars, rng>>

\* lines 125-130
TrialJudge ==
    /\ sch.pc = "swapped"
    /\ LET new_house == homes_for_sale[sch.k]
           satisfied == is_satisfied(grid, sch.R, new_house, sch.sim_sat_range)
           patience == IF satisfied THEN sch.left - 1 ELSE sch.left
       IN  IF satisfied /\ patience = 0
           THEN /\ grid' = restore_chosen(grid, sch.location, new_house)
                /\ sch' = [sch EXCEPT !.pc = "found", !.left = patience,
                                      !.new_location = new_house]
           ELSE /\ grid' = swap_locations(grid, sch.location, new_house)
                /\ sch' = [sch EXCEPT !.pc = "find", !.left = patience, !.k = @ + 1]
    /\ UNCHANGED homes_for_sale
    /\ UNCHANGED <<electionVars, epidemicVars, rng>>

\* line 132
FindExhausted ==
    /\ sch.pc = "find"
    /\ sch.k > Len(homes_for_sale)
    /\ sch' = [sch EXCEPT !.pc = "found", !.new_location = sch.location]
    /\ UNCHANGED <<grid, homes_for_sale>>
    /\ UNCHANGED <<electionVars, epidemicVars, rng>>

\* lines 164-168
Relocate ==
    /\ sch.pc = "found"
    /\ IF sch.new_location # sch.location
       THEN /\ grid' = swap_locations(grid, sch.location, sch.new_location)
            /\ homes_for_sale' = homes_after_move(homes_for_sale, sch.location,
                                                  sch.new_location)
            /\ sch' = [sch EXCEPT !.pc = "wave", !.relocations = @ + 1,
                                  !.location = next_location(grid, @),
                                  !.moved[Len(sch.moved)] = @ + 1]
       ELSE /\ sch' = [sch EXCEPT !.pc = "wave", !.location = next_location(grid, @)]
            /\ UNCHANGED <<grid, homes_for_sale>>
    /\ UNCHANGED <<electionVars, epidemicVars, rng>>

\* line 170 of the maroon wave; the blue wave begins (line 192)
MaroonWaveEnd ==
    /\ sch.pc = "wave"
    /\ sch.location[1] > Len(grid)
    /\ sch.color = "M"
    /\ sch' = [sch EXCEPT !.maroon_wave = sch.relocations, !.color = "B",
                          !.relocations = 0, !.location = <<1, 1>>,
                          !.waves = Append(@, "B")]
    /\ UNCHANGED <<grid, homes_for_sale>>
    /\ UNCHANGED <<electionVars, epidemicVars, rng>>

\* line 170 of the blue wave, lines 195-197 and 223-226
StepEnd ==
    /\ sch.pc = "wave"
    /\ sch.location[1] > Len(grid)
    /\ sch.color = "B"
    /\ LET blue_wave == sch.relocations
           total_relocations == sch.maroon_wave + blue_wave
       IN  sch' = [sch EXCEPT !.pc = "test", !.one_step_relocation = total_relocations,
                              !.total_relocations = @ + total_relocations,
                              !.steps = @ + 1]
    /\ UNCHANGED <<grid, homes_for_sale>>
    /\ UNCHANGED <<electionVars, epidemicVars, rng>>

(***************************************************************************)
(* Spec: Precinct.simulate with arbitrary generated pairs.                 *)
(***************************************************************************)
Init ==
    /\ precinct \in Precincts
    /\ args = [percent_straight_ticket |-> 0, straight_ticket_duration |-> 0, seed |-> 0]
    /\ pc = "idle"
    /\ time = 0
    /\ voters = <<>>
    /\ booths = VotingBooths(precinct.num_booths)
    /\ i = 0
    /\ voter = NoVoter
    /\ draws = <<>>
    /\ rng = 0
    /\ agg = NoAgg
    /\ ref = NoRef
    /\ search = NoSearch
    /\ api = NoApi
    /\ other = NoOther
    /\ sir = NoSir
    /\ grid = <<>>
    /\ homes_for_sale = <<>>
    /\ sch = NoSch

Call ==
    /\ SimulateCall(0, straight_ticket_duration, 0)
    /\ UNCHANGED <<search, api, other, precinct, epidemicVars, schellingVars, agg, ref>>

Generate ==
    /\ \E gap \in Gaps, voting_duration \in Durs : NextVoter(gap, voting_duration)
    /\ UNCHANGED <<search, api, other, precinct, epidemicVars, schellingVars, rng, agg, ref>>

Exhaust == LoopExhausted /\ UNCHANGED <<search, api, other, precinct, epidemicVars, schellingVars, rng, agg, ref>>

AdmitStep == Admit /\ UNCHANGED <<search, api, other, precinct, epidemicVars, schellingVars, rng, agg, ref>>

EnterStep == Enter /\ UNCHANGED <<search, api, other, precinct, epidemicVars, schellingVars, rng, agg, ref>>

Next == Call \/ Generate \/ Exhaust \/ AdmitStep \/ EnterStep

Spec == Init /\ [][Next]_vars

\* a sequential program takes its next step
SpecFair == Spec /\ WF_vars(Next)

(***************************************************************************)
(* SpecSeeded: find_avg_wait_time, the pairs drawn from the generator.     *)
(***************************************************************************)
GenerateSeeded ==
    /\ LET g == gen_voter_parameters(rng, args.percent_straight_ticket,
                                     args.straight_ticket_duration)
       IN  NextVoter(g.gap, g.voting_duration) /\ rng' = g.rng
    /\ UNCHANGED <<search, api, other, precinct, epidemicVars, schellingVars, agg, ref>>

AggCall ==
    /\ \E percent \in Percents, ntrials \in 0..MaxTrials, initial_seed \in 0..MaxSeed :
          FindAvgWaitTimeCall(percent, ntrials, initial_seed)
    /\ UNCHANGED search

NextSeeded ==
    \/ AggCall \/ TrialCall \/ TrialReturn \/ FindAvgWaitTimeReturn \/ OtherDraw
    \/ GenerateSeeded \/ Exhaust \/ AdmitStep \/ EnterStep

SpecSeeded == Init /\ [][NextSeeded]_vars

(***************************************************************************)
(* SpecSearch: one call of find_percent_split_ticket.                      *)
(***************************************************************************)
Targets == {0, TimeStep \div 2, TimeStep * MaxVoters * MaxDurSteps}

SearchCall ==
    \E target \in Targets, ntrials \in 0..MaxTrials, seed \in 0..MaxSeed :
        FindPercentSplitTicketCall(target, ntrials, seed)

SearchTrialReturn == TrialReturn /\ ref' = ref

NextSearch ==
    \/ SearchCall \/ SweepStep \/ SweepCompare \/ SweepError \/ SweepExhausted
    \/ TrialCall \/ SearchTrialReturn \/ FindAvgWaitTimeReturn
    \/ GenerateSeeded \/ Exhaust \/ AdmitStep \/ EnterStep

SpecSearch == Init /\ [][NextSearch]_vars

(***************************************************************************)
(* SpecConcurrent: two calls of simulate on two threads of one process.    *)
(* The variables of simulate are the locals of the running thread, `other` *)
(* holds those of the suspended one, and the generator's state rng belongs *)
(* to the module `random`, which both use.                                 *)
(***************************************************************************)
ConcurrentPrecincts ==
    {p \in Precincts : /\ p.hours_open = MaxHoursOpen
                       /\ p.num_booths = 1
                       /\ p.max_num_voters \in 1..2}

InitConcurrent == Init /\ precinct \in ConcurrentPrecincts

ThreadCall ==
    /\ pc = "idle"
    /\ \E seed \in 0..MaxSeed : SimulateCall(0, straight_ticket_duration, seed)
    /\ UNCHANGED <<search, api, other, precinct, epidemicVars, schellingVars, agg, ref>>

\* the interpreter suspends the running thread and resumes the other
Switch ==
    /\ other' = [args |-> args, pc |-> pc, time |-> time, voters |-> voters,
                 booths |-> booths, i |-> i, voter |-> voter, draws |-> draws]
    /\ args' = other.args
    /\ pc' = other.pc
    /\ time' = other.time
    /\ voters' = other.voters
    /\ booths' = other.booths
    /\ i' = other.i
    /\ voter' = other.voter
    /\ draws' = other.draws
    /\ UNCHANGED <<search, api, precinct, epidemicVars, schellingVars, rng, agg, ref>>

NextConcurrent ==
    ThreadCall \/ Switch \/ GenerateSeeded \/ Exhaust \/ AdmitStep \/ EnterStep

SpecConcurrent == InitConcurrent /\ [][NextConcurrent]_vars

\* what simulate returns when nothing else runs during the call: the loop of
\* lines 127-144 from the generator state r, the time t, the voters vs, the
\* pool b and k iterations done
RECURSIVE simulate_from(_, _, _, _, _, _)
simulate_from(r, t, vs, b, k, percent_straight_ticket) ==
    IF k >= precinct.max_num_voters THEN vs
    ELSE LET g == gen_voter_parameters(r, percent_straight_ticket, straight_ticket_duration)
             v == next_voter(t, g.gap, g.voting_duration)
             v1 == [v EXCEPT !.start_time = start_time_of(v, b)]
             v2 == [v1 EXCEPT !.departure_time = departure_time_of(v1)]
             b1 == IF full(b) THEN depart(b) ELSE b
         IN  IF closed(v.arrival_time) THEN vs
             ELSE simulate_from(g.rng, v.arrival_time, Append(vs, v2), enter(b1, v2),
                                k + 1, percent_straight_ticket)

simulate_alone(seed, percent_straight_ticket) ==
    simulate_from(RngSeed(seed), 0, <<>>, VotingBooths(precinct.num_booths), 0,
                  percent_straight_ticket)

(***************************************************************************)
(* SpecEpidemic: one call of run_simulation.  SpecEpidemicFair adds that   *)
(* the call keeps running (the interpreter takes its next step).           *)
(***************************************************************************)
\* simulate.py not called
ElectionIdle ==
    /\ precinct = Precinct(0, 0, 0)
    /\ args = [percent_straight_ticket |-> 0, straight_ticket_duration |-> 0, seed |-> 0]
    /\ pc = "idle"
    /\ time = 0
    /\ voters = <<>>
    /\ booths = VotingBooths(precinct.num_booths)
    /\ i = 0
    /\ voter = NoVoter
    /\ draws = <<>>
    /\ rng = 0
    /\ agg = NoAgg
    /\ ref = NoRef
    /\ search = NoSearch
    /\ api = NoApi
    /\ other = NoOther

\* the arguments of the call are chosen
InitEpidemic ==
    /\ ElectionIdle
    /\ sir \in {[NoSir EXCEPT !.starting_city = starting_city,
                               !.days_contagious = days_contagious,
                               !.vaccine_effectiveness = vaccine_effectiveness] :
                    starting_city \in Cities, days_contagious \in DaysContagious,
                    vaccine_effectiveness \in Percents}
    /\ grid = <<>>
    /\ homes_for_sale = <<>>
    /\ sch = NoSch

EpidemicCall ==
    RunSimulationCall(sir.starting_city, sir.days_contagious, TEST_SEED,
                      sir.vaccine_effectiveness)

NextEpidemic ==
    EpidemicCall \/ SimulateOneDay \/ CountDay \/ RunSimulationReturn

SpecEpidemic == InitEpidemic /\ [][NextEpidemic]_vars

SpecEpidemicFair == SpecEpidemic /\ WF_vars(NextEpidemic)

(***************************************************************************)
(* SpecSchelling: one call of do_simulation on a grid and the list of its  *)
(* homes for sale, in the order of the rows or in the opposite order.      *)
(***************************************************************************)
InitSchelling ==
    /\ ElectionIdle
    /\ sir = NoSir
    /\ grid \in Grids
    /\ homes_for_sale \in {for_sale(grid), Reverse(for_sale(grid))}
    /\ sch \in {[NoSch EXCEPT !.R = R, !.sim_sat_range = sim_sat_range,
                               !.patience = patience, !.max_steps = max_steps] :
                    R \in 0..MaxR, sim_sat_range \in SatRanges,
                    patience \in 0..MaxPatience, max_steps \in 0..MaxSteps}

NextSchelling ==
    \/ DoSimulationCall \/ StepStart \/ DoSimulationReturn \/ WaveVisit
    \/ TrialSwap \/ TrialJudge \/ FindExhausted \/ Relocate
    \/ MaroonWaveEnd \/ StepEnd

SpecSchelling == InitSchelling /\ [][NextSchelling]_vars

(***************************************************************************)
(* SpecBooths: a client calling the methods of one VotingBooths object.    *)
(***************************************************************************)
MaxPool == 3

ApiFull ==
    /\ pc = "idle"
    /\ api' = [NoApi EXCEPT !.op = "full", !.outcome = "returned",
                            !.answer = full(booths), !.before = booths.queue]
    /\ UNCHANGED <<search, other, precinct, epidemicVars, schellingVars, trialVars, rng, agg, ref>>

ApiEnter ==
    /\ pc = "idle"
    /\ qsize(booths) < MaxPool
    /\ \E t \in Durs :
          LET v == [Voter(0, t) EXCEPT !.start_time = 0, !.departure_time = t]
          IN  IF enter_blocks(booths)
              THEN /\ api' = [NoApi EXCEPT !.op = "enter", !.outcome = "blocked",
                                           !.arg = t, !.before = booths.queue]
                   /\ pc' = "blocked"
                   /\ booths' = booths
              ELSE /\ api' = [NoApi EXCEPT !.op = "enter", !.outcome = "returned",
                                           !.arg = t, !.before = booths.queue]
                   /\ pc' = pc
                   /\ booths' = enter(booths, v)
    /\ UNCHANGED <<search, other, precinct, epidemicVars, schellingVars, args, time, voters, i, voter, draws, rng, agg, ref>>

ApiDepart ==
    /\ pc = "idle"
    /\ IF depart_blocks(booths)
       THEN /\ api' = [NoApi EXCEPT !.op = "depart", !.outcome = "blocked",
                                    !.before = booths.queue]
            /\ pc' = "blocked"
            /\ booths' = booths
       ELSE /\ api' = [NoApi EXCEPT !.op = "depart", !.outcome = "returned",
                                    !.value = depart_value(booths),
                                    !.before = booths.queue]
            /\ pc' = pc
            /\ booths' = depart(booths)
    /\ UNCHANGED <<search, other, precinct, epidemicVars, schellingVars, args, time, voters, i, voter, draws, rng, agg, ref>>

NextBooths == ApiFull \/ ApiEnter \/ ApiDepart

SpecBooths == Init /\ [][NextBooths]_vars

(***************************************************************************)
(* Properties of Precinct.simulate (checked under Spec and SpecFair).      *)
(***************************************************************************)
\* the arrival time of the k-th voter generated in this call, from the
\* generated gaps alone
RECURSIVE ArrivalOf(_)
ArrivalOf(k) == IF k = 0 THEN 0 ELSE ArrivalOf(k - 1) + draws[k][1]

\* C1: every voter of the list simulate builds has start_time >= arrival_time
\* and departure_time = start_time + voting_duration.
C1_StartAndDeparture ==
    \A k \in 1..Len(voters) :
        /\ voters[k].start_time >= voters[k].arrival_time
        /\ voters[k].departure_time = voters[k].start_time + voters[k].voting_duration

\* a returned list in which a voter waited for a booth
C1_Witness ==
    /\ pc = "done"
    /\ \E k \in 1..Len(voters) : voters[k].start_time > voters[k].arrival_time
    /\ \E k \in 1..Len(voters) : voters[k].start_time = voters[k].arrival_time

\* C2: at every point of a trial the pool holds at most num_booths
\* departure times.
C2_PoolWithinCapacity == qsize(booths) <= precinct.num_booths

\* C3: the admission rule.  Pool not full: start_time = arrival_time and the
\* pool is left alone.  Pool full: the minimum departure time E leaves the
\* pool, start_time = arrival_time if E < arrival_time and E otherwise.  Then
\* exactly the voter's own departure_time is put into the pool.
C3_AdmissionRule ==
    [][/\ (pc = "vote" /\ pc' = "enter") =>
            IF ~full(booths)
            THEN /\ voter'.start_time = voter.arrival_time
                 /\ booths' = booths
            ELSE LET E == Min(BagToSet(booths.queue))
                 IN  /\ voter'.start_time =
                            IF E < voter.arrival_time THEN voter.arrival_time ELSE E
                     /\ booths'.queue (+) SetToBag({E}) = booths.queue
       /\ (pc = "enter" /\ pc' = "loop") =>
            /\ voter'.departure_time = voter.start_time + voter.voting_duration
            /\ booths'.queue = booths.queue (+) SetToBag({voter'.departure_time})
            /\ voters' = Append(voters, voter')
      ]_vars

\* the full pool made a voter wait until the earliest departure
C3_Witness ==
    /\ pc = "enter"
    /\ qsize(booths) = precinct.num_booths - 1
    /\ voter.start_time > voter.arrival_time

\* C4: the first generated voter arriving after closing time ends the trial:
\* it is not appended, gets no start or departure time, leaves the pool
\* alone, and no voter is generated after it; every voter of the list
\* arrived at or before closing time.
C4_LateVoterEndsTrial ==
    /\ [](/\ \A k \in 1..Len(voters) : voters[k].arrival_time <= closing_time
          /\ (voter # NoVoter /\ voter.arrival_time > closing_time) =>
                /\ pc = "done"
                /\ voter.start_time = None
                /\ voter.departure_time = None
                /\ Len(voters) = Len(draws) - 1
                /\ \A k \in 1..Len(voters) : voters[k] # voter)
    /\ [][/\ (pc = "loop" /\ voter'.arrival_time > closing_time) =>
                pc' = "done" /\ voters' = voters /\ booths' = booths
          /\ pc = "done" => (draws' = draws \/ (pc' = "loop" /\ draws' = <<>>))
         ]_vars

\* a trial that admitted voters and was ended by a late voter
C4_Witness ==
    /\ pc = "done"
    /\ precinct.hours_open >= 1
    /\ Len(voters) >= 1
    /\ voter.arrival_time > closing_time

\* C5: a voter whose arrival time equals closing time is admitted and is in
\* the returned list; the trial is closed only by an arrival time greater
\* than closing time.
C5_BoundaryVoterAdmitted ==
    pc = "done" =>
        /\ \A k \in 1..Len(draws) :
               ArrivalOf(k) = closing_time =>
                   /\ k <= Len(voters)
                   /\ voters[k].arrival_time = closing_time
                   /\ voters[k].start_time # None
        /\ Len(voters) < Len(draws) => ArrivalOf(Len(draws)) > closing_time

\* the returned list holds a voter that arrived exactly at closing time
C5_Witness ==
    /\ pc = "done"
    /\ precinct.hours_open >= 1
    /\ \E k \in 1..Len(voters) :
           voters[k].arrival_time = closing_time /\ ArrivalOf(k) = closing_time

\* C6: simulate terminates, generating at most max_num_voters voters; it
\* returns max_num_voters voters when none of the generated arrival times
\* exceeds closing time, and otherwise the k voters generated before the
\* first one that arrived after closing time.
C6_Terminates ==
    /\ [](/\ Len(draws) <= precinct.max_num_voters
          /\ pc # "blocked"
          /\ pc = "done" =>
                LET n == Len(draws)
                IN  IF \A k \in 1..n : ArrivalOf(k) <= closing_time
                    THEN n = precinct.max_num_voters /\ Len(voters) = n
                    ELSE /\ ArrivalOf(n) > closing_time
                         /\ \A k \in 1..(n - 1) : ArrivalOf(k) <= closing_time
                         /\ Len(voters) = n - 1)
    /\ (pc = "loop" ~> pc = "done")

\* a trial of three possible voters closed by the third
C6_Witness ==
    /\ pc = "done"
    /\ precinct.max_num_voters = 3
    /\ Len(draws) = 3
    /\ Len(voters) = 2

\* C7: the k-th voter of the list is the k-th generated voter, its
\* arrival_time the previous voter's arrival_time (0 for the first) plus
\* the k-th gap; the arrival times do not decrease along the list.
C7_ArrivalOrder ==
    \A k \in 1..Len(voters) :
        /\ voters[k].arrival_time =
               (IF k = 1 THEN 0 ELSE voters[k - 1].arrival_time) + draws[k][1]
        /\ voters[k].voting_duration = draws[k][2]
        /\ k > 1 => voters[k - 1].arrival_time <= voters[k].arrival_time

\* three voters returned, the first after the opening, each later than the last
C7_Witness ==
    /\ pc = "done"
    /\ Len(voters) = 3
    /\ 0 < voters[1].arrival_time
    /\ voters[1].arrival_time < voters[2].arrival_time
    /\ voters[2].arrival_time < voters[3].arrival_time

\* C8: with num_booths >= max_num_voters and positive gaps no voter waits;
\* with one booth, one voter and a first arrival before closing, exactly one
\* voter is returned.
C8_NoWaitWithEnoughBooths ==
    (/\ precinct.num_booths >= precinct.max_num_voters
     /\ \A k \in 1..Len(draws) : draws[k][1] > 0) =>
        /\ \A k \in 1..Len(voters) : voters[k].start_time = voters[k].arrival_time
        /\ (/\ pc = "done"
            /\ precinct.num_booths = 1
            /\ precinct.max_num_voters = 1
            /\ Len(draws) = 1
            /\ ArrivalOf(1) <= closing_time) => Len(voters) = 1

\* two booths, two voters, the second arriving while the first is voting
C8_Witness ==
    /\ pc = "done"
    /\ precinct.num_booths = 2
    /\ precinct.max_num_voters = 2
    /\ Len(voters) = 2
    /\ \A k \in 1..Len(draws) : draws[k][1] > 0
    /\ voters[2].arrival_time < voters[1].departure_time

(***************************************************************************)
(* Properties of the seeded trials (checked under SpecSeeded).             *)
(***************************************************************************)
\* C9: a call of simulate returns the same voters as any earlier call with
\* the same seed and configuration, whatever was drawn in between.
C9_Deterministic ==
    (/\ agg.pc = "trial"
     /\ pc = "done"
     /\ ref.seed = args.seed
     /\ ref.percent_straight_ticket = args.percent_straight_ticket) =>
        voters = ref.voters

\* a second call with the seed of a recorded call, in another call of
\* find_avg_wait_time, returning voters one of whom waited
C9_Witness ==
    /\ agg.pc = "trial"
    /\ pc = "done"
    /\ ref.seed = args.seed
    /\ ref.percent_straight_ticket = args.percent_straight_ticket
    /\ agg.initial_seed = args.seed
    /\ args.seed > 0
    /\ \E k \in 1..Len(voters) : voters[k].start_time > voters[k].arrival_time

\* C10: find_avg_wait_time runs ntrials simulations, the one of index k with
\* seed initial_seed + k, all with the same percent_straight_ticket (the
\* precinct never changes).  Stated at every point: the calls made so far
\* are the first ones of that list, and all of it when the function returns.
C10_TrialSeeds ==
    agg.pc # "idle" =>
        /\ Len(agg.calls) <= agg.ntrials
        /\ \A k \in 1..Len(agg.calls) :
               /\ agg.calls[k].seed = agg.initial_seed + (k - 1)
               /\ agg.calls[k].percent_straight_ticket = agg.percent_straight_ticket
        /\ agg.pc = "trial" =>
               /\ Len(agg.calls) = agg.i + 1
               /\ args.seed = agg.initial_seed + agg.i
        /\ agg.pc = "returned" => Len(agg.calls) = agg.ntrials

\* two trials run from initial seed 1 and the median returned
C10_Witness ==
    /\ agg.pc = "returned"
    /\ agg.ntrials = 2
    /\ agg.initial_seed = 1
    /\ Len(agg.calls) = 2

RECURSIVE SumSeq(_)
SumSeq(ws) == IF ws = <<>> THEN 0 ELSE Head(ws) + SumSeq(Tail(ws))

\* x is the mean of the waits ws
IsMeanOf(x, ws) == ws # <<>> /\ x.num * Len(ws) = SumSeq(ws) * x.den

\* C11: find_avg_wait_time returns the element of index ntrials // 2 of the
\* ascending list of the trials' averages, each the mean of start_time -
\* arrival_time over the trial's voters; for an even ntrials the upper middle
\* one (averages 1, 2, 3, 4 give 3; averages 3, 1, 2 give 2).
C11_Median ==
    /\ agg.pc = "returned" =>
          LET lst == agg.avg_wait_lst
              n == agg.ntrials
          IN  /\ Len(lst) = n
              /\ Len(agg.trial_waits) = n
              /\ \A k \in 1..(n - 1) : lst[k].num * lst[k + 1].den <= lst[k + 1].num * lst[k].den
              /\ \E p \in [1..n -> 1..n] :
                    /\ \A j, k \in 1..n : j # k => p[j] # p[k]
                    /\ \A k \in 1..n : IsMeanOf(lst[k], agg.trial_waits[p[k]])
              /\ agg.result = lst[(n \div 2) + 1]
    /\ median_of(<<Fraction(1, 1), Fraction(2, 1), Fraction(3, 1), Fraction(4, 1)>>, 4)
          = Fraction(3, 1)
    /\ median_of(<<Fraction(3, 1), Fraction(1, 1), Fraction(2, 1)>>, 3) = Fraction(2, 1)

\* two trials, the first with the greater average: the sort swaps them and
\* the greater one is returned
C11_Witness ==
    /\ agg.pc = "returned"
    /\ agg.ntrials = 2
    /\ SumSeq(agg.trial_waits[1]) * Len(agg.trial_waits[2])
          > SumSeq(agg.trial_waits[2]) * Len(agg.trial_waits[1])
    /\ IsMeanOf(agg.result, agg.trial_waits[1])

\* C12: a trial that admits no voter makes find_avg_wait_time fail at that
\* trial (the division by len(voters) = 0 raises) instead of returning a
\* median: no average is appended and no later trial runs.
C12_EmptyTrialFails ==
    /\ [](agg.pc = "returned" => \A k \in 1..Len(agg.trial_waits) : agg.trial_waits[k] # <<>>)
    /\ [][(agg.pc = "trial" /\ pc = "done" /\ voters = <<>>) =>
             /\ agg'.pc = "error"
             /\ agg'.error = "ZeroDivisionError"
             /\ agg'.avg_wait_lst = agg.avg_wait_lst
             /\ agg'.calls = agg.calls
         ]_vars
    /\ [][agg.pc = "error" => (agg'.pc = "error" => agg' = agg)]_vars

\* the second trial admitted nobody after a first trial that admitted voters
C12_Witness ==
    /\ agg.pc = "error"
    /\ agg.error = "ZeroDivisionError"
    /\ Len(agg.trial_waits) = 2
    /\ agg.trial_waits[1] # <<>>
    /\ agg.trial_waits[2] = <<>>

(***************************************************************************)
(* Properties of find_percent_split_ticket (checked under SpecSearch).     *)
(***************************************************************************)
\* C13: the split percentages 0.0, 0.1, ..., 1.0 are evaluated in increasing
\* order, each with straight percentage 1 - split; the sweep stops at the
\* first one whose wait is strictly greater than the target (an equal wait
\* does not stop it), and that percentage and that wait are returned.
C13_FirstExceeding ==
    LET ev == search.evaluated
        n == Len(ev)
    IN  /\ n <= 11
        /\ \A k \in 1..n :
              /\ ev[k].percent_split_ticket = k - 1
              /\ ev[k].percent_straight_ticket = 10 - (k - 1)
              /\ ev[k].ntrials = search.ntrials
              /\ ev[k].seed = search.seed
        /\ \A k \in 1..(n - 1) :
              ev[k].avg_wait_time.num <= search.target_wait_time * ev[k].avg_wait_time.den
        /\ search.pc \in {"sweep", "wait", "error"} => ~search.found
        /\ (n > 0 /\ ~search.found) =>
              ev[n].avg_wait_time.num <= search.target_wait_time * ev[n].avg_wait_time.den
        /\ search.found =>
              /\ search.pc = "returned"
              /\ n > 0
              /\ ev[n].avg_wait_time.num > search.target_wait_time * ev[n].avg_wait_time.den
              /\ search.result = [percent_split_ticket |-> n - 1,
                                  avg_wait_time |-> ev[n].avg_wait_time]

\* the sweep went past a wait equal to the target and stopped later
C13_Witness ==
    /\ search.pc = "returned"
    /\ search.found
    /\ Len(search.evaluated) >= 3
    /\ \E k \in 1..(Len(search.evaluated) - 1) :
          search.evaluated[k].avg_wait_time.num
              = search.target_wait_time * search.evaluated[k].avg_wait_time.den

\* C14: when none of the 11 percentages gives a wait above the target,
\* find_percent_split_ticket returns (1, None) without raising, after
\* evaluating all 11.
C14_Sentinel ==
    /\ (search.pc = "returned" /\ ~search.found) =>
          /\ Len(search.evaluated) = 11
          /\ \A k \in 1..11 :
                search.evaluated[k].avg_wait_time.num
                    <= search.target_wait_time * search.evaluated[k].avg_wait_time.den
          /\ search.result = [percent_split_ticket |-> 10, avg_wait_time |-> NoneWait]
    /\ (Len(search.evaluated) = 11 /\ ~search.found) => search.pc \in {"sweep", "returned"}

\* all 11 percentages evaluated, waits met along the way, the sentinel returned
C14_Witness ==
    /\ search.pc = "returned"
    /\ ~search.found
    /\ Len(search.evaluated) = 11
    /\ \E k \in 1..11 : search.evaluated[k].avg_wait_time.num > 0

(***************************************************************************)
(* Properties of VotingBooths (checked under SpecBooths).                  *)
(***************************************************************************)
\* C15: enter on a full pool fails at once with a CapacityExceeded error and
\* leaves the pool as it was; it does not hang.
C15_EnterOnFullFails ==
    (/\ api.op = "enter"
     /\ 0 < booths.maxsize
     /\ BagCardinality(api.before) >= booths.maxsize) =>
        /\ api.outcome = "CapacityExceeded"
        /\ pc # "blocked"
        /\ booths.queue = api.before

\* C16: depart on a non-empty pool returns the minimum of the departure
\* times held and removes exactly one occurrence of it; every other entry,
\* equal ones included, stays.
C16_DepartMinimum ==
    (api.op = "depart" /\ api.before # EmptyBag) =>
        /\ api.outcome = "returned"
        /\ BagIn(api.value, api.before)
        /\ \A x \in BagToSet(api.before) : api.value <= x
        /\ booths.queue (+) SetToBag({api.value}) = api.before

\* the minimum was held twice beside a later departure, and one copy left
C16_Witness ==
    /\ api.op = "depart"
    /\ BagCardinality(api.before) = 3
    /\ CopiesIn(api.value, api.before) = 2
    /\ CopiesIn(api.value, booths.queue) = 1
    /\ BagCardinality(booths.queue) = 2

\* C17: depart on an empty pool fails at once with an EmptyPool error; it
\* returns nothing and does not hang.
C17_DepartOnEmptyFails ==
    (api.op = "depart" /\ api.before = EmptyBag) =>
        /\ api.outcome = "EmptyPool"
        /\ pc # "blocked"

\* C18: full() is true exactly when the number of entries held equals the
\* capacity num_booths, for every capacity, 0 included.
C18_FullIffAtCapacity ==
    api.op = "full" =>
        (api.answer <=> BagCardinality(api.before) = precinct.num_booths)

(***************************************************************************)
(* Configuration and concurrency.                                          *)
(***************************************************************************)
\* C19: a precinct with num_booths = 0 is rejected before the voter loop of
\* simulate starts: no voter is generated or admitted for it.
C19_ZeroBoothsRejected ==
    precinct.num_booths = 0 => (draws = <<>> /\ voters = <<>>)

\* C20: two calls of simulate running concurrently, their steps interleaved,
\* each return the voters their seed gives when the call runs alone.
C20_ConcurrentTrialsIndependent ==
    /\ pc = "done" => voters = simulate_alone(args.seed, args.percent_straight_ticket)
    /\ other.pc = "done" =>
          other.voters = simulate_alone(other.args.seed, other.args.percent_straight_ticket)

\* a call of simulate made by find_avg_wait_time, nothing else running,
\* returns simulate_alone of its arguments
SimulateAloneAgrees ==
    (agg.pc = "trial" /\ pc = "done") =>
        voters = simulate_alone(args.seed, args.percent_straight_ticket)

(***************************************************************************)
(* The voters of a trial.                                                  *)
(***************************************************************************)
IsSet(x) == x # None

\* the voters of the list are those of this call and are left as they are
ListKept == \A k \in 1..Len(voters) : k <= Len(voters') /\ voters'[k] = voters[k]

\* a step of the trial in progress that keeps the Voter object bound to
\* `voter` (next_voter and a new call of simulate bind a new one)
SameVoter == pc \in {"vote", "enter"} /\ pc' # "blocked"

\* C21 as stated: at every point of a trial departure_time is set if and
\* only if start_time is set.
C21_SetTogetherAlways ==
    /\ IsSet(voter.departure_time) <=> IsSet(voter.start_time)
    /\ \A k \in 1..Len(voters) :
           IsSet(voters[k].departure_time) <=> IsSet(voters[k].start_time)

\* C21, amended: at every point of a trial outside simulate_single_vote
\* departure_time is set if and only if start_time is set; inside it, between
\* lines 107 and 109, start_time is set and departure_time is not.  Both are
\* unset at creation, each is assigned once, by simulate_single_vote, and
\* never changed afterwards.
C21_SetTogetherOutsideAdmission ==
    /\ [](/\ pc # "enter" =>
                (IsSet(voter.departure_time) <=> IsSet(voter.start_time))
          /\ pc = "enter" => (IsSet(voter.start_time) /\ ~IsSet(voter.departure_time))
          /\ pc = "vote" => (~IsSet(voter.start_time) /\ ~IsSet(voter.departure_time))
          /\ \A k \in 1..Len(voters) :
                 IsSet(voters[k].departure_time) /\ IsSet(voters[k].start_time))
    /\ [][/\ Len(draws') > Len(draws) =>
                (~IsSet(voter'.start_time) /\ ~IsSet(voter'.departure_time))
          /\ (SameVoter /\ IsSet(voter.start_time)) =>
                voter'.start_time = voter.start_time
          /\ (SameVoter /\ IsSet(voter.departure_time)) =>
                voter'.departure_time = voter.departure_time
          /\ (voter'.start_time # voter.start_time /\ IsSet(voter'.start_time)) =>
                (pc = "vote" /\ pc' = "enter")
          /\ (voter'.departure_time # voter.departure_time
                /\ IsSet(voter'.departure_time)) => (pc = "enter" /\ pc' = "loop")
          /\ pc # "done" => ListKept
         ]_vars

\* a voter inside simulate_single_vote, its start time assigned and its
\* departure time not yet, after an earlier voter was admitted
C21_Witness ==
    /\ pc = "enter"
    /\ Len(voters) >= 1
    /\ IsSet(voter.start_time)
    /\ ~IsSet(voter.departure_time)

\* C22: arrival_time and voting_duration of a voter are fixed at creation:
\* simulate_single_vote and every later step of the trial leave them as they
\* are, and admitting a voter changes no field of a voter admitted before.
C22_FrameOfAdmission ==
    [][/\ SameVoter =>
            /\ voter'.arrival_time = voter.arrival_time
            /\ voter'.voting_duration = voter.voting_duration
       /\ (pc = "enter" /\ pc' = "loop") =>
            /\ Len(voters') = Len(voters) + 1
            /\ voters'[Len(voters')].arrival_time = voter.arrival_time
            /\ voters'[Len(voters')].voting_duration = voter.voting_duration
       /\ pc # "done" => ListKept
      ]_vars

\* a second voter, different from the first, has been admitted
C22_Witness ==
    /\ pc = "loop"
    /\ Len(voters) = 2
    /\ voters[1] # voters[2]
    /\ voters[2].start_time > voters[2].arrival_time

\* the voters of the list who are voting at time t
VotingAt(t) ==
    {k \in 1..Len(voters) : voters[k].start_time <= t /\ t < voters[k].departure_time}

\* C23: with num_booths >= 1 (gaps and durations are never negative), at
\* every time t at most num_booths voters of the list simulate builds have
\* start_time <= t < departure_time.
C23_AtMostNumBoothsVoting ==
    precinct.num_booths >= 1 =>
        \A j \in 1..Len(voters) :
            Cardinality(VotingAt(voters[j].start_time)) <= precinct.num_booths

\* a returned list with every booth taken at one moment while a voter waits
C23_Witness ==
    /\ pc = "done"
    /\ precinct.num_booths = 2
    /\ \E j \in 1..Len(voters) :
           /\ Cardinality(VotingAt(voters[j].start_time)) = 2
           /\ \E k \in 1..Len(voters) :
                  /\ voters[k].arrival_time <= voters[j].start_time
                  /\ voters[k].start_time > voters[j].start_time

\* C24: the start times of the voters of the list simulate builds are
\* non-decreasing in arrival order.
C24_FirstComeFirstServed ==
    \A j, k \in 1..Len(voters) :
        j < k => /\ voters[j].arrival_time <= voters[k].arrival_time
                 /\ voters[j].start_time <= voters[k].start_time

\* a returned list of three voters with two booths, the last of whom waited
C24_Witness ==
    /\ pc = "done"
    /\ precinct.num_booths = 2
    /\ Len(voters) = 3
    /\ voters[3].start_time > voters[3].arrival_time
    /\ voters[2].start_time < voters[3].start_time

\* C25: a voter starts after its arrival only if, at its arrival, num_booths
\* earlier voters each have departure_time >= its arrival_time, and then its
\* start_time is the smallest departure time held in the pool at that step.
C25_WorkConserving ==
    [][(pc = "vote" /\ pc' = "enter" /\ voter'.start_time > voter.arrival_time) =>
            /\ qsize(booths) = precinct.num_booths
            /\ \A x \in BagToSet(booths.queue) : x >= voter.arrival_time
            /\ voter'.start_time = Min(BagToSet(booths.queue))
            /\ Cardinality({k \in 1..Len(voters) :
                               voters[k].departure_time >= voter.arrival_time})
                   >= precinct.num_booths
      ]_vars

\* a voter waits for the earlier of two different departures
C25_Witness ==
    /\ pc = "enter"
    /\ precinct.num_booths = 2
    /\ Len(voters) >= 2
    /\ voter.start_time > voter.arrival_time
    /\ \E x \in BagToSet(booths.queue) : x > voter.start_time

(***************************************************************************)
(* SIR/sir.py                                                              *)
(***************************************************************************)
\* C26: run_simulation terminates for every city of people in states S, R,
\* V or I<k> and every days_contagious; the returned city holds no infected
\* person and the returned count is the number of simulate_one_day steps
\* performed, 0 if the vaccinated starting city has no infected person.
C26_RunSimulationTerminates ==
    /\ (sir.pc = "loop") ~> (sir.pc = "returned")
    /\ [](sir.pc = "returned" =>
            /\ \A k \in 1..Len(sir.vaccinated) : ~is_infected(sir.vaccinated[k])
            /\ sir.count = sir.days
            /\ (\A k \in 1..Len(sir.first_city) : ~is_infected(sir.first_city[k]))
                   => (sir.count = 0 /\ sir.vaccinated = sir.first_city))

\* a call returned after three days: the infection passed along the city
C26_Witness ==
    /\ sir.pc = "returned"
    /\ sir.count >= 3
    /\ Len(sir.vaccinated) = 3
    /\ \A k \in 1..3 : sir.vaccinated[k] = Recovered
    /\ sir.first_city[3] = Susceptible

\* what the claim gives for the person at index p of the start-of-day city c
NextDayState(c, p, days_contagious) ==
    LET left == c[Max({p - 1, 1})]
        right == c[Min({p + 1, Len(c)})]
        infected_days == {k \in 0..(2 * MaxDaysContagious) : c[p] = Infected(k)}
    IN  IF c[p] \in {Recovered, Vaccinated} THEN {c[p]}
        ELSE IF c[p] = Susceptible
             THEN IF is_infected(left) \/ is_infected(right)
                  THEN {Infected(0)} ELSE {Susceptible}
             ELSE {IF k < days_contagious - 1 THEN Infected(k + 1) ELSE Recovered :
                       k \in infected_days}

\* C27: simulate_one_day gives every person its next state from the
\* start-of-day city and leaves that city as it is: R and V stay, S becomes
\* I0 exactly when the left or right neighbour (clamped at the ends) is
\* infected at the start of the day, I<k> becomes I<k+1> when
\* k < days_contagious - 1 and R otherwise.
C27_OneDaySynchronous ==
    [][(sir.pc = "loop" /\ sir'.pc = "count") =>
            /\ sir'.day_city = sir.vaccinated
            /\ Len(sir'.vaccinated) = Len(sir.vaccinated)
            /\ \A p \in 1..Len(sir.vaccinated) :
                   {sir'.vaccinated[p]} = NextDayState(sir.vaccinated, p, sir.days_contagious)
      ]_vars

\* a day on which a susceptible person is infected by the neighbour on the
\* left, who recovers the same day, and the person after stays susceptible
C27_Witness ==
    /\ sir.pc = "loop"
    /\ sir.count >= 1
    /\ Len(sir.day_city) = 3
    /\ is_infected(sir.day_city[1])
    /\ sir.day_city[2] = Susceptible
    /\ sir.day_city[3] = Susceptible
    /\ sir.vaccinated = <<Recovered, Infected(0), Susceptible>>

(***************************************************************************)
(* schelling.py                                                            *)
(***************************************************************************)
\* C28: find_new_house leaves the grid as it found it on every return path,
\* a home chosen or none found: every trial swap is undone before it
\* returns, and homes_for_sale is not modified.
C28_FindNewHouseRestoresGrid ==
    /\ sch.pc = "found" =>
          /\ grid = sch.entry_grid
          /\ homes_for_sale = sch.entry_homes
    /\ sch.pc = "find" => grid = sch.entry_grid
    /\ sch.pc \in {"find", "swapped"} => homes_for_sale = sch.entry_homes

\* find_new_house returned the second satisfactory home it tried
C28_Witness ==
    /\ sch.pc = "found"
    /\ sch.new_location # sch.location
    /\ sch.patience = 2
    /\ sch.tried >= 2
    /\ grid = sch.entry_grid

\* find_new_house returned the old location after trying two homes
C28_WitnessNoHome ==
    /\ sch.pc = "found"
    /\ sch.new_location = sch.location
    /\ sch.tried >= 2

CountOf(g, cell) == Cardinality({c \in Locations(g) : CellAt(g, c) = cell})

\* homes_for_sale lists exactly the "F" locations of the grid, each once
HomesExact ==
    /\ \A c \in Locations(grid) :
           CellAt(grid, c) = "F" <=> \E k \in 1..Len(homes_for_sale) : homes_for_sale[k] = c
    /\ \A j, k \in 1..Len(homes_for_sale) :
           homes_for_sale[j] = homes_for_sale[k] => j = k
    /\ \A k \in 1..Len(homes_for_sale) : homes_for_sale[k] \in Locations(grid)

\* C29: homes_for_sale starting as the list of the "F" locations without
\* duplicates, after every relocation made by simulate_wave, and so after
\* every step of do_simulation, it is still exactly the "F" locations
\* without duplicates, the vacated home at the front and the new home
\* removed, and the numbers of "M", "B" and "F" cells are unchanged.
C29_HomesForSaleExact ==
    /\ [](/\ sch.pc \notin {"swapped", "idle"} => HomesExact
          /\ sch.pc # "idle" =>
                \A cell \in Cells : CountOf(grid, cell) = CountOf(sch.grid0, cell))
    /\ [][(sch.pc = "found" /\ sch.new_location # sch.location) =>
             /\ Len(homes_for_sale') = Len(homes_for_sale)
             /\ homes_for_sale'[1] = sch.location
             /\ \A k \in 1..Len(homes_for_sale') : homes_for_sale'[k] # sch.new_location
             /\ CellAt(grid', sch.location) = "F"
             /\ CellAt(grid', sch.new_location) = CellAt(grid, sch.location)
             /\ \A c \in Locations(grid) \ {sch.location, sch.new_location} :
                    CellAt(grid', c) = CellAt(grid, c)
         ]_vars

\* a step ended after two relocations, with two homes for sale
C29_Witness ==
    /\ sch.pc = "test"
    /\ sch.steps >= 1
    /\ sch.one_step_relocation >= 2
    /\ Len(homes_for_sale) >= 2
    /\ grid # sch.grid0

RECURSIVE SumOf(_)
SumOf(lst) == IF lst = <<>> THEN 0 ELSE Head(lst) + SumOf(Tail(lst))

\* C30: do_simulation performs at most max_steps steps, each a maroon wave
\* followed by a blue wave, stops right after the first step without a
\* relocation, and returns the sum of the relocations of the steps it
\* performed; with max_steps = 0 it performs no step, returns 0 and leaves
\* the grid unchanged.
C30_DoSimulationSteps ==
    /\ Len(sch.moved) <= sch.max_steps
    /\ \A k \in 1..Len(sch.waves) : sch.waves[k] = IF k % 2 = 1 THEN "M" ELSE "B"
    /\ \A k \in 1..(Len(sch.moved) - 1) : sch.moved[k] # 0
    /\ sch.pc = "returned" =>
          /\ Len(sch.waves) = 2 * Len(sch.moved)
          /\ Len(sch.moved) < sch.max_steps =>
                (Len(sch.moved) >= 1 /\ sch.moved[Len(sch.moved)] = 0)
          /\ sch.result = SumOf(sch.moved)
          /\ sch.max_steps = 0 =>
                (sch.moved = <<>> /\ sch.result = 0 /\ grid = sch.grid0)

\* a call that ran two steps and stopped short of max_steps
C30_Witness ==
    /\ sch.pc = "returned"
    /\ sch.max_steps = 2
    /\ sch.result >= 1
    /\ Len(sch.moved) = 2
    /\ sch.moved[2] = 0

\* a call that used all its steps, relocating in the last one
C30_WitnessAllSteps ==
    /\ sch.pc = "returned"
    /\ sch.max_steps = 2
    /\ Len(sch.moved) = 2
    /\ sch.moved[2] # 0

\* a call with max_steps = 0 on a grid with an unsatisfied homeowner
C30_WitnessNoStep ==
    /\ sch.pc = "returned"
    /\ sch.max_steps = 0
    /\ \E c \in Locations(grid) :
           /\ CellAt(grid, c) # "F"
           /\ ~is_satisfied(grid, sch.R, c, sch.sim_sat_range)

====
